---- MODULE Spec2Model ----
(***************************************************************************)
(* Presupuesto 50-20-30 v7.1 (src/v7.1.py): the Budget of one              *)
(* (user, profile), the dashboard's handlers that change it, and the       *)
(* views computed from it.                                                 *)
(*                                                                         *)
(* Money is a Python float in the source.  Here a sum of money is an       *)
(* integer number of centavos and every amount typed into a form is a      *)
(* whole number of pesos, so that gam * cashback / 100 is exact.           *)
(* A str is the sequence of its characters where the code takes it apart   *)
(* (ISO dates), and a TLA+ string where it only compares it (names).       *)
(***************************************************************************)
EXTENDS Integers, Sequences, FiniteSets, TLC

VARIABLES
    b,      \* the Budget stored for the signed-in (user, profile): what load_budget returns at the start of a run
    today,  \* TODAY of the current script run
    last,   \* the intent the last run handled: the button pressed, its inputs, the Budget it
            \* loaded (pre) and, for a deletion, the intent handled before it (after)
    store,  \* the data directory: file key -> stored Budget, or NoFile
    sess    \* the concurrent sessions of the two-session specification

vars == <<b, today, last, store, sess>>

\* ------------------------------------------------------------------ bounds
MaxAccounts == 2
MaxCards == 2
MaxGoals == 2
MaxTx == 2
MaxSaved == 2
MaxRows == 3

\* ------------------------------------------------------------------ input sets
\* (names are written without their accents)
Names == {"Cuenta Nomina", "Banreservas"}
AccountTypes == {"Debito", "Certificado"}
Cashbacks == {0, 25}
Amounts == {100}
None == "<None>"

\* an outcome of a call: a value returned, or an exception raised
Returned(v) == [raised |-> FALSE, value |-> v]

Raised == [raised |-> TRUE]

\* ------------------------------------------------------------------ sequences
Max(x, y) == IF x >= y THEN x ELSE y

Range(s) == {s[i] : i \in DOMAIN s}

\* list.pop(idx) for a 0-based idx in range: the list without that element
Pop(s, idx) == [j \in 1..(Len(s) - 1) |-> IF j <= idx THEN s[j] ELSE s[j + 1]]

\* list.remove(x): the list without its first element equal to x
Remove(s, x) ==
    LET first == CHOOSE i \in DOMAIN s : s[i] = x /\ \A j \in 1..(i - 1) : s[j] # x
    IN  IF x \in Range(s) THEN Pop(s, first - 1) ELSE s

RECURSIVE SortedReverse(_)
\* sorted(to_del, reverse=True)
SortedReverse(s) ==
    IF s = <<>> THEN <<>>
    ELSE LET hi == CHOOSE x \in Range(s) : \A y \in Range(s) : y <= x
         IN  <<hi>> \o SortedReverse(Remove(s, hi))

\* ------------------------------------------------------------------ dates
Date(y, m, d) == [year |-> y, month |-> m, day |-> d]

Digits == <<"0", "1", "2", "3", "4", "5", "6", "7", "8", "9">>

DigitChar(n) == Digits[n + 1]

DigitVal(c) == (CHOOSE i \in DOMAIN Digits : Digits[i] = c) - 1

\* date.isoformat(): "YYYY-MM-DD" as its ten characters
isoformat(d) ==
    << DigitChar(d.year \div 1000), DigitChar((d.year \div 100) % 10),
       DigitChar((d.year \div 10) % 10), DigitChar(d.year % 10), "-",
       DigitChar(d.month \div 10), DigitChar(d.month % 10), "-",
       DigitChar(d.day \div 10), DigitChar(d.day % 10) >>

\* date.fromisoformat(iso)
fromisoformat(iso) ==
    Date(1000 * DigitVal(iso[1]) + 100 * DigitVal(iso[2]) + 10 * DigitVal(iso[3]) + DigitVal(iso[4]),
         10 * DigitVal(iso[6]) + DigitVal(iso[7]),
         10 * DigitVal(iso[9]) + DigitVal(iso[10]))

\* ------------------------------------------------------------------ data model
Account(name, type, balance, rate) ==
    [name |-> name, type |-> type, balance |-> balance, rate |-> rate]

CreditCard(name, limit, cut_day, pay_day, balance, cashback) ==
    [name |-> name, limit |-> limit, cut_day |-> cut_day, pay_day |-> pay_day,
     balance |-> balance, cashback |-> cashback]

Transaction(date, amount, category, subcat, source, recurrent) ==
    [date |-> date, amount |-> amount, category |-> category, subcat |-> subcat,
     source |-> source, recurrent |-> recurrent]

Goal(name, target, deadline, saved) ==
    [name |-> name, target |-> target, deadline |-> deadline, saved |-> saved]

\* Budget(): the default-initialised budget
Budget ==
    [accounts |-> <<Account("Cuenta Nomina", "Debito", 0, 0)>>,
     cards    |-> <<CreditCard("Banreservas", 0, 15, 5, 0, 0)>>,
     debts    |-> <<>>,
     incomes  |-> <<>>,
     expenses |-> <<>>,
     goals    |-> <<>>]

\* the options of the forms' source selectbox; an empty selectbox returns None
SrcOptions(bb) ==
    LET names == {bb.accounts[i].name : i \in DOMAIN bb.accounts}
                 \cup {bb.cards[i].name : i \in DOMAIN bb.cards}
    IN  IF names = {} THEN {None} ELSE names

\* ------------------------------------------------------------------ handlers
\* AdjustAccounts falling back on the first account when no account bears the name
AdjustAccountsOrFirst(accounts, src, delta) ==
    [i \in DOMAIN accounts |->
        IF \/ accounts[i].name = src
           \/ (i = 1 /\ \A j \in DOMAIN accounts : accounts[j].name # src)
        THEN [accounts[i] EXCEPT !.balance = @ + delta] ELSE accounts[i]]

\* for a in accounts: if a.name == src: a.balance += delta
AdjustAccounts(accounts, src, delta) ==
    [i \in DOMAIN accounts |->
        IF accounts[i].name = src
        THEN [accounts[i] EXCEPT !.balance = @ + delta] ELSE accounts[i]]

\* for c in cards: if c.name == src: c.balance += delta
AdjustCards(cards, src, delta) ==
    [i \in DOMAIN cards |->
        IF cards[i].name = src
        THEN [cards[i] EXCEPT !.balance = @ + delta] ELSE cards[i]]

\* inc_form with the card's balance raised, as an expense would
inc_form_card_raised(bb, idt, iam, icat, isub, src, irec) ==
    [bb EXCEPT !.accounts = AdjustAccounts(@, src, iam),
               !.cards    = AdjustCards(@, src, iam),
               !.incomes  = Append(@, Transaction(isoformat(idt), iam, icat, isub, src, irec))]

\* "Guardar ingreso"
inc_form(bb, idt, iam, icat, isub, src, irec) ==
    [bb EXCEPT !.accounts = AdjustAccounts(@, src, iam),
               !.cards    = AdjustCards(@, src, 0 - iam),
               !.incomes  = Append(@, Transaction(isoformat(idt), iam, icat, isub, src, irec))]

\* for a in b.accounts: if a.type=="Debito": a.balance += cb; break
CreditFirstDebit(accounts, cb) ==
    [i \in DOMAIN accounts |->
        IF accounts[i].type = "Debito" /\ \A j \in 1..(i - 1) : accounts[j].type # "Debito"
        THEN [accounts[i] EXCEPT !.balance = @ + cb] ELSE accounts[i]]

RECURSIVE ChargeCards(_, _, _, _, _)
\* the loop over b.cards of "Guardar gasto", from card i on
ChargeCards(accounts, cards, i, src, gam) ==
    IF i > Len(cards) THEN [accounts |-> accounts, cards |-> cards]
    ELSE IF cards[i].name # src THEN ChargeCards(accounts, cards, i + 1, src, gam)
    ELSE IF cards[i].cashback = 0
         THEN ChargeCards(accounts, [cards EXCEPT ![i].balance = @ + gam], i + 1, src, gam)
    ELSE LET cb == (gam * cards[i].cashback) \div 100
         IN  ChargeCards(CreditFirstDebit(accounts, cb),
                         [cards EXCEPT ![i].balance = @ + gam - cb], i + 1, src, gam)

\* "Guardar gasto" (with a sub-category given)
exp_form(bb, gdt, gam, gcat, gsub, src, grec) ==
    LET charged == ChargeCards(AdjustAccounts(bb.accounts, src, 0 - gam), bb.cards, 1, src, gam)
    IN  [bb EXCEPT !.accounts = charged.accounts,
                   !.cards    = charged.cards,
                   !.expenses = Append(@, Transaction(isoformat(gdt), gam, gcat, gsub, src, grec))]

\* DeletionOrder without the sort: the rows popped in the order they were picked
DeletionOrderAsPicked(to_del) == to_del

\* the order in which the selected indices are popped
DeletionOrder(to_del) == SortedReverse(to_del)

RECURSIVE PopIncomesAccountsOnly(_, _)
\* PopIncomes without the loop over the cards
PopIncomesAccountsOnly(bb, order) ==
    IF order = <<>> THEN Returned(bb)
    ELSE IF Head(order) >= Len(bb.incomes) THEN Raised
    ELSE LET idx == Head(order)
             t   == bb.incomes[idx + 1]
         IN  PopIncomesAccountsOnly(
                 [bb EXCEPT !.incomes  = Pop(@, idx),
                            !.accounts = AdjustAccounts(@, t.source, 0 - t.amount)],
                 Tail(order))

RECURSIVE PopIncomes(_, _)
\* "Eliminar ingresos seleccionados": for idx in order: pop and reverse;
\* list.pop raises IndexError for an index out of range
PopIncomes(bb, order) ==
    IF order = <<>> THEN Returned(bb)
    ELSE IF Head(order) >= Len(bb.incomes) THEN Raised
    ELSE LET idx == Head(order)
             t   == bb.incomes[idx + 1]
         IN  PopIncomes([bb EXCEPT !.incomes  = Pop(@, idx),
                                   !.accounts = AdjustAccounts(@, t.source, 0 - t.amount),
                                   !.cards    = AdjustCards(@, t.source, t.amount)],
                        Tail(order))

RECURSIVE PopExpensesRowsOnly(_, _)
\* PopExpenses without the loops over the accounts and the cards
PopExpensesRowsOnly(bb, order) ==
    IF order = <<>> THEN Returned(bb)
    ELSE IF Head(order) >= Len(bb.expenses) THEN Raised
    ELSE PopExpensesRowsOnly([bb EXCEPT !.expenses = Pop(@, Head(order))], Tail(order))

RECURSIVE PopExpenses(_, _)
\* "Eliminar gastos seleccionados": for idx in order: pop and reverse
PopExpenses(bb, order) ==
    IF order = <<>> THEN Returned(bb)
    ELSE IF Head(order) >= Len(bb.expenses) THEN Raised
    ELSE LET idx == Head(order)
             t   == bb.expenses[idx + 1]
         IN  PopExpenses([bb EXCEPT !.expenses = Pop(@, idx),
                                    !.accounts = AdjustAccounts(@, t.source, t.amount),
                                    !.cards    = AdjustCards(@, t.source, 0 - t.amount)],
                         Tail(order))

\* ------------------------------------------------------------------ calendar
IsLeap(y) == (y % 4 = 0 /\ y % 100 # 0) \/ y % 400 = 0

DaysInMonth(y, m) ==
    IF m = 2 THEN (IF IsLeap(y) THEN 29 ELSE 28)
    ELSE IF m \in {4, 6, 9, 11} THEN 30 ELSE 31

RECURSIVE DaysBeforeMonth(_, _)
DaysBeforeMonth(y, m) ==
    IF m = 1 THEN 0 ELSE DaysBeforeMonth(y, m - 1) + DaysInMonth(y, m - 1)

\* date.toordinal(): what date subtraction counts in
toordinal(d) ==
    LET y1 == d.year - 1
    IN  y1 * 365 + (y1 \div 4) - (y1 \div 100) + (y1 \div 400)
        + DaysBeforeMonth(d.year, d.month) + d.day

\* (d1 - d2).days
days(d1, d2) == toordinal(d1) - toordinal(d2)

\* dt.date(year, month, day): raises ValueError for a day the month does not have
date(y, m, d) ==
    IF d \in 1..DaysInMonth(y, m) THEN Returned(Date(y, m, d)) ELSE Raised

\* ------------------------------------------------------------------ views
_ym(iso) == <<fromisoformat(iso).year, fromisoformat(iso).month>>

RECURSIVE _tot_any_year(_, _, _)
\* _tot comparing the month alone
_tot_any_year(seq, y, m) ==
    IF seq = <<>> THEN 0
    ELSE (IF _ym(Head(seq).date)[2] = m THEN Head(seq).amount ELSE 0)
         + _tot_any_year(Tail(seq), y, m)

RECURSIVE _tot(_, _, _)
\* Budget._tot: sum(t.amount for t in seq if _ym(t.date) == (y, m))
_tot(seq, y, m) ==
    IF seq = <<>> THEN 0
    ELSE (IF _ym(Head(seq).date) = <<y, m>> THEN Head(seq).amount ELSE 0)
         + _tot(Tail(seq), y, m)

\* Budget.cashflow_m
cashflow_m(bb, y, m) == _tot(bb.incomes, y, m) - _tot(bb.expenses, y, m)

\* months_left without the floor of one month
months_left_unclamped(g, now) == days(fromisoformat(g.deadline), now) \div 30

\* Goal.months_left
months_left(g, now) == Max(days(fromisoformat(g.deadline), now) \div 30, 1)

\* Goal.need_pm: the quotient as its numerator and denominator; a zero
\* denominator raises ZeroDivisionError
need_pm(g, now) ==
    LET den == months_left(g, now)
    IN  IF den = 0 THEN Raised
        ELSE Returned([num |-> Max(g.target - g.saved, 0), den |-> den])

RECURSIVE RemindersFrom(_, _, _)
\* the reminders loop from card i on: the positions of the cards a warning is
\* shown for, or the ValueError of building a pay_date
RemindersFrom(cards, i, now) ==
    IF i > Len(cards) THEN Returned({})
    ELSE LET pay_date == date(now.year, now.month, cards[i].pay_day)
         IN  IF pay_date.raised THEN Raised
             ELSE LET rest == RemindersFrom(cards, i + 1, now)
                      left == days(pay_date.value, now)
                  IN  IF rest.raised THEN Raised
                      ELSE IF 0 <= left /\ left <= 5
                           THEN Returned({i} \cup rest.value) ELSE rest

\* "Recordatorios tarjetas"
CardReminders(bb, now) == RemindersFrom(bb.cards, 1, now)

\* a run reaches the main body's tables and delete buttons only past the
\* reminders loop
BodyReached(bb, now) == ~CardReminders(bb, now).raised

\* ------------------------------------------------------------------ persistence
Users == {"ana"}

Profiles == {"Principal", "Ahorro"}

\* sha256(s).hexdigest(): one digest per string
_hash(str) == <<"sha256", str>>

\* the path of the file of (u, p)
_f(u, p) == <<_hash(u), "__", _hash(p), ".json">>

Files == {_f(u, p) : u \in Users, p \in Profiles}

NoFile == [exists |-> FALSE]

File(d) == [exists |-> TRUE, data |-> d]

TxFields == {"date", "amount", "category", "subcat", "source", "recurrent"}

GoalFields == {"name", "target", "deadline", "saved"}

\* _tx_clean: the legacy key "account" read as "source", other keys dropped
_tx_clean(d) ==
    LET d1 == IF "account" \in DOMAIN d /\ "source" \notin DOMAIN d
              THEN [k \in (DOMAIN d \ {"account"}) \cup {"source"} |->
                       IF k = "source" THEN d["account"] ELSE d[k]]
              ELSE d
    IN  [k \in DOMAIN d1 \cap TxFields |-> d1[k]]

\* _goal_clean: other keys dropped, missing ones given their defaults in the
\* order target, deadline, saved, name
_goal_clean(d, now) ==
    LET g0 == DOMAIN d \cap GoalFields
        g3 == g0 \cup {"target", "deadline", "saved"}
    IN  [k \in GoalFields |->
            IF k \in g0 THEN d[k]
            ELSE IF k = "deadline" THEN isoformat(Date(now.year + 1, now.month,
                                                   IF now.month = 2 /\ now.day = 29 THEN 28 ELSE now.day))
            ELSE IF k = "name" THEN <<"Meta", Cardinality(g3)>>
            ELSE 0]

\* d.get(key, [])
Get(d, key) == IF key \in DOMAIN d THEN d[key] ELSE <<>>

\* dataclasses.asdict(b)
asdict(bb) ==
    [accounts |-> [i \in DOMAIN bb.accounts |->
                      [k \in {"name", "type", "balance", "rate"} |-> bb.accounts[i][k]]],
     cards    |-> [i \in DOMAIN bb.cards |->
                      [k \in {"name", "limit", "cut_day", "pay_day", "balance", "cashback"} |->
                          bb.cards[i][k]]],
     debts    |-> bb.debts,
     incomes  |-> [i \in DOMAIN bb.incomes |-> [k \in TxFields |-> bb.incomes[i][k]]],
     expenses |-> [i \in DOMAIN bb.expenses |-> [k \in TxFields |-> bb.expenses[i][k]]],
     goals    |-> [i \in DOMAIN bb.goals |-> [k \in GoalFields |-> bb.goals[i][k]]]]

\* load_budget(u, p) over the files st
load_budget(st, u, p, now) ==
    IF ~st[_f(u, p)].exists THEN Budget
    ELSE LET d == st[_f(u, p)].data
             accounts == Get(d, "accounts")
             cards    == Get(d, "cards")
             incomes  == Get(d, "incomes")
             expenses == Get(d, "expenses")
             goals    == Get(d, "goals")
             Tx(t) == Transaction(t.date, t.amount, t.category, t.subcat, t.source, t.recurrent)
             Gl(g) == Goal(g.name, g.target, g.deadline, g.saved)
         IN  [accounts |-> [i \in DOMAIN accounts |->
                               Account(accounts[i].name, accounts[i].type,
                                       accounts[i].balance, accounts[i].rate)],
              cards    |-> [i \in DOMAIN cards |->
                               CreditCard(cards[i].name, cards[i].limit, cards[i].cut_day,
                                          cards[i].pay_day, cards[i].balance, cards[i].cashback)],
              debts    |-> Get(d, "debts"),
              incomes  |-> [i \in DOMAIN incomes |-> Tx(_tx_clean(incomes[i]))],
              expenses |-> [i \in DOMAIN expenses |-> Tx(_tx_clean(expenses[i]))],
              goals    |-> [i \in DOMAIN goals |-> Gl(_goal_clean(goals[i], now))]]

\* save_budget keeping the incomes already in the file
save_budget_merging(st, u, p, bb) ==
    LET old == IF st[_f(u, p)].exists THEN st[_f(u, p)].data.incomes ELSE <<>>
        new == IF bb.incomes = <<>> THEN <<>> ELSE <<bb.incomes[Len(bb.incomes)]>>
    IN  [st EXCEPT ![_f(u, p)] = File([asdict(bb) EXCEPT !.incomes = old \o new])]

\* save_budget(u, p, b) over the files st: the file's whole content replaced
save_budget(st, u, p, bb) == [st EXCEPT ![_f(u, p)] = File(asdict(bb))]

\* ------------------------------------------------------------------ state
Today0 == Date(2024, 3, 10)

\* later days on which the script runs
RunDays == {Date(2024, 4, 27), Date(2025, 2, 25)}

\* the balances the model follows: what MaxTx transactions can move
MaxBal == 100 * MaxTx

InRange(bb) ==
    /\ \A i \in DOMAIN bb.accounts : bb.accounts[i].balance \in (0 - MaxBal)..MaxBal
    /\ \A i \in DOMAIN bb.cards : bb.cards[i].balance \in (0 - MaxBal)..MaxBal

RECURSIVE Orderings(_)
Orderings(S) ==
    IF S = {} THEN {<<>>}
    ELSE UNION {{<<x>> \o p : p \in Orderings(S \ {x})} : x \in S}

\* what the multiselect over the rows 0..n-1 returns: distinct row indices in
\* the order they were picked
Selections(n) == UNION {Orderings(T) : T \in SUBSET (0..(n - 1))}

\* the rows picked from the top of the list down
IsAscending(to_del) == \A i, j \in DOMAIN to_del : i < j => to_del[i] < to_del[j]

\* the browser sessions of the two-session specification
Sessions == {"s1", "s2"}

Init ==
    /\ b = Budget
    /\ today = Today0
    /\ last = [op |-> "start"]
    /\ store = [k \in Files |-> NoFile]
    /\ sess = [s \in Sessions |-> [pc |-> "idle"]]

\* what a deletion's record keeps of the intent handled before it: a recording
\* whole, anything else as one
Before(intent) == IF intent.op \in {"inc", "exp"} THEN intent ELSE [op |-> "other"]

\* the end of a handler and the run after it: save_budget(user, prof, b),
\* _rerun(), and dashboard() loading the Budget again
Rerun(bb, now) ==
    load_budget(save_budget([k \in Files |-> NoFile], "ana", "Principal", bb),
                "ana", "Principal", now)

\* ------------------------------------------------------------------ sidebar
\* "Agregar cuenta"
AccNew(nn, nt) ==
    /\ nn # ""
    /\ Len(b.accounts) < MaxAccounts
    /\ b' = Rerun([b EXCEPT !.accounts = Append(@, Account(nn, nt, 0, 0))], today)
    /\ last' = [op |-> "acc_new"]
    /\ UNCHANGED <<today, store, sess>>

\* an account's "Guardar", with a name typed into its "Nombre"
AccGuardar(i, name) ==
    /\ i \in DOMAIN b.accounts
    /\ b' = Rerun([b EXCEPT !.accounts[i].name = name], today)
    /\ last' = [op |-> "acc_save"]
    /\ UNCHANGED <<today, store, sess>>

\* an account's "Guardar", with a balance typed into its "Saldo"
AccSaldo(i, balance) ==
    /\ i \in DOMAIN b.accounts
    /\ b' = Rerun([b EXCEPT !.accounts[i].balance = balance], today)
    /\ last' = [op |-> "acc_save"]
    /\ UNCHANGED <<today, store, sess>>

\* an account's delete button
AccDelete(i) ==
    /\ i \in DOMAIN b.accounts
    /\ b' = Rerun([b EXCEPT !.accounts = Remove(@, b.accounts[i])], today)
    /\ last' = [op |-> "acc_del"]
    /\ UNCHANGED <<today, store, sess>>

\* "Anadir tarjeta"
CardNew(nt) ==
    /\ nt # ""
    /\ Len(b.cards) < MaxCards
    /\ b' = Rerun([b EXCEPT !.cards = Append(@, CreditCard(nt, 0, 15, 5, 0, 0))], today)
    /\ last' = [op |-> "cc_new"]
    /\ UNCHANGED <<today, store, sess>>

\* a card's "Guardar", with its inputs as typed
CardGuardar(i, name, pay_day, cashback) ==
    /\ i \in DOMAIN b.cards
    /\ b' = Rerun([b EXCEPT !.cards[i].name = name, !.cards[i].pay_day = pay_day,
                            !.cards[i].cashback = cashback], today)
    /\ last' = [op |-> "cc_save"]
    /\ UNCHANGED <<today, store, sess>>

\* a card's delete button
CardDelete(i) ==
    /\ i \in DOMAIN b.cards
    /\ b' = Rerun([b EXCEPT !.cards = Remove(@, b.cards[i])], today)
    /\ last' = [op |-> "cc_del"]
    /\ UNCHANGED <<today, store, sess>>

\* "Crear meta"
GoalForm(gn, gt, gd) ==
    /\ gn # ""
    /\ Len(b.goals) < MaxGoals
    /\ b' = Rerun([b EXCEPT !.goals = Append(@, Goal(gn, gt, isoformat(gd), 0))], today)
    /\ last' = [op |-> "goal_new"]
    /\ UNCHANGED <<today, store, sess>>

\* a goal's "Sumar"
GoalSumar(i, add) ==
    /\ i \in DOMAIN b.goals
    /\ add # 0
    /\ b.goals[i].saved + add <= 100 * MaxSaved
    /\ b' = Rerun([b EXCEPT !.goals[i].saved = @ + add], today)
    /\ last' = [op |-> "goal_plus", goal |-> i, add |-> add, pre |-> b]
    /\ UNCHANGED <<today, store, sess>>

\* a goal's delete button
GoalDelete(i) ==
    /\ i \in DOMAIN b.goals
    /\ b' = Rerun([b EXCEPT !.goals = Remove(@, b.goals[i])], today)
    /\ last' = [op |-> "goal_del"]
    /\ UNCHANGED <<today, store, sess>>

\* "Guardar ingreso"
IncForm(idt, iam, src) ==
    /\ src \in SrcOptions(b)
    /\ b' = Rerun(inc_form(b, idt, iam, "Salario", "General", src, FALSE), today)
    /\ InRange(b')
    /\ last' = [op |-> "inc", date |-> idt, amount |-> iam, source |-> src, pre |-> b]
    /\ UNCHANGED <<today, store, sess>>

\* "Guardar gasto"
ExpForm(gdt, gam, gsub, src) ==
    /\ gsub # ""
    /\ src \in SrcOptions(b)
    /\ b' = Rerun(exp_form(b, gdt, gam, "Needs", gsub, src, FALSE), today)
    /\ InRange(b')
    /\ last' = [op |-> "exp", date |-> gdt, amount |-> gam, source |-> src, pre |-> b]
    /\ UNCHANGED <<today, store, sess>>

\* ------------------------------------------------------------------ main body
\* "Eliminar ingresos seleccionados"; an exception ends the run before save_budget
DelIncomes(to_del) ==
    /\ BodyReached(b, today)
    /\ b.incomes # <<>>
    /\ LET r == PopIncomes(b, DeletionOrder(to_del))
       IN  b' = IF r.raised THEN b ELSE Rerun(r.value, today)
    /\ InRange(b')
    /\ last' = [op |-> "del_inc", to_del |-> to_del, pre |-> b, after |-> Before(last)]
    /\ UNCHANGED <<today, store, sess>>

\* "Eliminar gastos seleccionados"
DelExpenses(to_del) ==
    /\ BodyReached(b, today)
    /\ b.expenses # <<>>
    /\ LET r == PopExpenses(b, DeletionOrder(to_del))
       IN  b' = IF r.raised THEN b ELSE Rerun(r.value, today)
    /\ InRange(b')
    /\ last' = [op |-> "del_exp", to_del |-> to_del, pre |-> b, after |-> Before(last)]
    /\ UNCHANGED <<today, store, sess>>

\* the script runs again on a later day
NewDay(d) ==
    /\ days(d, today) > 0
    /\ today' = d
    /\ last' = [op |-> "run"]
    /\ UNCHANGED <<b, store, sess>>

\* ------------------------------------------------------------------ sessions
\* a session's run starts: dashboard() loads the Budget of its user and profile
RunStart(s, u, p) ==
    /\ sess[s].pc \in {"idle", "saved"}
    /\ LET loaded == load_budget(store, u, p, today)
       IN  sess' = [sess EXCEPT ![s] = [pc |-> "loaded", user |-> u, profile |-> p,
                                        b |-> loaded, base |-> loaded]]
    /\ last' = [op |-> "load", session |-> s]
    /\ UNCHANGED <<b, today, store>>

\* the run handles "Guardar ingreso" and saves
RunIncome(s, iam, src) ==
    /\ sess[s].pc = "loaded"
    /\ Len(sess[s].b.incomes) < MaxTx
    /\ src \in SrcOptions(sess[s].b)
    /\ LET nb == inc_form(sess[s].b, today, iam, "Salario", "General", src, FALSE)
       IN  /\ InRange(nb)
           /\ sess' = [sess EXCEPT ![s].pc = "saved", ![s].b = nb]
           /\ store' = save_budget(store, sess[s].user, sess[s].profile, nb)
    /\ last' = [op |-> "save", session |-> s, amount |-> iam, source |-> src, pre |-> store]
    /\ UNCHANGED <<b, today>>

\* ------------------------------------------------------------------ specifications
\* the income side of the ledger, with accounts added and deleted in between
Next ==
    \/ \E nn \in Names : AccNew(nn, "Debito")
    \/ \E i \in 1..MaxAccounts : AccDelete(i)
    \/ Len(b.incomes) < MaxTx /\ \E iam \in Amounts, src \in Names : IncForm(today, iam, src)
    \/ \E to_del \in Selections(Len(b.incomes)) : IsAscending(to_del) /\ DelIncomes(to_del)

Spec == Init /\ [][Next]_vars

\* expenses paid by accounts and by a card that pays cash-back, with accounts
\* added and deleted in between
NextGastos ==
    \/ \E nn \in Names, nt \in AccountTypes : AccNew(nn, nt)
    \/ \E i \in 1..MaxAccounts : AccDelete(i)
    \/ \E cb \in Cashbacks : CardGuardar(1, b.cards[1].name, b.cards[1].pay_day, cb)
    \/ Len(b.expenses) < MaxTx /\ \E gam \in Amounts, src \in Names : ExpForm(today, gam, "Renta", src)

SpecGastos == Init /\ [][NextGastos]_vars

\* expenses recorded and deleted, with a card that pays cash-back
NextDevolucion ==
    \/ \E cb \in Cashbacks : CardGuardar(1, b.cards[1].name, b.cards[1].pay_day, cb)
    \/ Len(b.expenses) < MaxTx /\ \E gam \in Amounts, src \in Names : ExpForm(today, gam, "Renta", src)
    \/ \E to_del \in Selections(Len(b.expenses)) : DelExpenses(to_del)

SpecDevolucion == Init /\ [][NextDevolucion]_vars

\* incomes and expenses recorded and deleted while the account is renamed or deleted
NextLedger ==
    \/ \E i \in 1..MaxAccounts, name \in Names : AccGuardar(i, name)
    \/ \E i \in 1..MaxAccounts : AccDelete(i)
    \/ Len(b.incomes) < MaxTx /\ \E iam \in Amounts, src \in Names : IncForm(today, iam, src)
    \/ Len(b.expenses) < MaxTx /\ \E gam \in Amounts, src \in Names : ExpForm(today, gam, "Renta", src)
    \/ \E to_del \in Selections(Len(b.incomes)) : IsAscending(to_del) /\ DelIncomes(to_del)
    \/ \E to_del \in Selections(Len(b.expenses)) : IsAscending(to_del) /\ DelExpenses(to_del)

SpecLedger == Init /\ [][NextLedger]_vars

\* rows picked in every order from lists of up to MaxRows incomes, of the
\* account and of the card, and MaxTx expenses of the account
NextBorrado ==
    \/ Len(b.incomes) < MaxRows /\ \E iam \in Amounts, src \in Names : IncForm(today, iam, src)
    \/ Len(b.expenses) < MaxTx /\ \E gam \in Amounts : ExpForm(today, gam, "Renta", "Cuenta Nomina")
    \/ \E to_del \in Selections(Len(b.incomes)) : DelIncomes(to_del)
    \/ \E to_del \in Selections(Len(b.expenses)) : DelExpenses(to_del)

SpecBorrado == Init /\ [][NextBorrado]_vars

\* the dates typed into the income and expense forms
FormDates == {Date(2024, 2, 29), Date(2024, 3, 10), Date(2024, 4, 1), Date(2025, 3, 10)}

\* dated incomes and expenses of the default account
NextFlujo ==
    \/ Len(b.incomes) < MaxTx /\ \E idt \in FormDates, iam \in Amounts : IncForm(idt, iam, "Cuenta Nomina")
    \/ Len(b.expenses) < MaxTx /\ \E gdt \in FormDates, gam \in Amounts : ExpForm(gdt, gam, "Renta", "Cuenta Nomina")

SpecFlujo == Init /\ [][NextFlujo]_vars

\* the deadlines and targets typed into the goal form
GoalDates == {Date(2023, 12, 31), Date(2024, 3, 10), Date(2024, 4, 9), Date(2024, 5, 20)}

GoalTargets == {0, 100}

\* savings goals, over several days
NextMetas ==
    \/ \E gn \in {"Viaje"}, gt \in GoalTargets, gd \in GoalDates : GoalForm(gn, gt, gd)
    \/ \E i \in 1..MaxGoals, add \in Amounts : GoalSumar(i, add)
    \/ \E i \in 1..MaxGoals : GoalDelete(i)
    \/ \E d \in RunDays : NewDay(d)

SpecMetas == Init /\ [][NextMetas]_vars

PayDays == {5, 30, 31}

\* credit cards, over several days
NextTarjetas ==
    \/ \E nt \in Names : CardNew(nt)
    \/ \E i \in 1..MaxCards, pd \in PayDays : CardGuardar(i, b.cards[i].name, pd, b.cards[i].cashback)
    \/ \E i \in 1..MaxCards : CardDelete(i)
    \/ \E d \in RunDays : NewDay(d)

SpecTarjetas == Init /\ [][NextTarjetas]_vars

\* ------------------------------------------------------------------ claims
\* the rows of a list that a selection leaves, in their order
Unselected(s, to_del) ==
    LET keep == {i \in DOMAIN s : (i - 1) \notin Range(to_del)}
        nth(k) == CHOOSE i \in keep : Cardinality({j \in keep : j < i}) = k - 1
    IN  [k \in 1..Cardinality(keep) |-> s[nth(k)]]

\* no account and no card bears the name
Dangling(bb, src) ==
    /\ \A i \in DOMAIN bb.accounts : bb.accounts[i].name # src
    /\ \A i \in DOMAIN bb.cards : bb.cards[i].name # src

\* C1: recording an income of amount A adds exactly A to the balance of the
\* account its source names, subtracts exactly A from the balance of the card its
\* source names, and appends exactly one transaction to the income list.
IncomeMovesBalance ==
    last.op = "inc" =>
        LET pre == last.pre
            n   == Len(pre.incomes)
        IN  /\ DOMAIN b.accounts = DOMAIN pre.accounts
            /\ DOMAIN b.cards = DOMAIN pre.cards
            /\ \A i \in DOMAIN pre.accounts :
                  pre.accounts[i].name = last.source
                  => b.accounts[i].balance = pre.accounts[i].balance + last.amount
            /\ \A i \in DOMAIN pre.cards :
                  pre.cards[i].name = last.source
                  => b.cards[i].balance = pre.cards[i].balance - last.amount
            /\ Len(b.incomes) = n + 1
            /\ SubSeq(b.incomes, 1, n) = pre.incomes
            /\ b.incomes[n + 1].amount = last.amount
            /\ b.incomes[n + 1].source = last.source

\* an income was recorded to an account (and to no card), next to another account
IncomeToAccountRecorded ==
    /\ last.op = "inc"
    /\ \E i \in DOMAIN b.accounts : b.accounts[i].name = last.source
    /\ \E i \in DOMAIN b.accounts : b.accounts[i].name # last.source
    /\ \A i \in DOMAIN b.cards : b.cards[i].name # last.source

\* C2: an expense of amount A paid with a card of cash-back rate R > 0, in a
\* budget with a Debit account, raises the card's balance by exactly
\* A - A*R/100 and the first Debit account's balance by exactly A*R/100.
CashbackToFirstDebit ==
    last.op = "exp" =>
        LET pre    == last.pre
            debits == {i \in DOMAIN pre.accounts : pre.accounts[i].type = "Debito"}
        IN  \A j \in DOMAIN pre.cards :
               (pre.cards[j].name = last.source /\ pre.cards[j].cashback > 0 /\ debits # {})
               => LET k  == CHOOSE i \in debits : \A i2 \in debits : i <= i2
                      cb == (last.amount * pre.cards[j].cashback) \div 100
                  IN  /\ b.cards[j].balance = pre.cards[j].balance + last.amount - cb
                      /\ b.accounts[k].balance = pre.accounts[k].balance + cb

\* C3: deleting the income just recorded restores every account and card
\* balance to its value before the recording, and the income list too.
IncomeDeleteRestores ==
    (/\ last.op = "del_inc"
     /\ last.after.op = "inc"
     /\ last.to_del = <<Len(last.pre.incomes) - 1>>)
    => /\ b.accounts = last.after.pre.accounts
       /\ b.cards = last.after.pre.cards
       /\ b.incomes = last.after.pre.incomes

\* an income recorded to the card was deleted in the next run
IncomeToCardDeleted ==
    /\ last.op = "del_inc"
    /\ last.after.op = "inc"
    /\ last.to_del = <<Len(last.pre.incomes) - 1>>
    /\ \E i \in DOMAIN last.pre.cards :
          /\ last.pre.cards[i].name = last.after.source
          /\ last.pre.cards[i].balance # b.cards[i].balance

\* C4: deleting the expense just recorded restores every account and card
\* balance to its value before the recording, and the expense list too,
\* whether the source is an account, a card without cash-back or a card with it.
ExpenseDeleteRestores ==
    (/\ last.op = "del_exp"
     /\ last.after.op = "exp"
     /\ last.to_del = <<Len(last.pre.expenses) - 1>>)
    => /\ b.accounts = last.after.pre.accounts
       /\ b.cards = last.after.pre.cards
       /\ b.expenses = last.after.pre.expenses

\* C5: deleting transactions whose source names no current account and no
\* current card removes them from their list and leaves every balance as it was.
DanglingDeleteKeepsBalances ==
    /\ (last.op = "del_inc"
        /\ \A idx \in Range(last.to_del) : Dangling(last.pre, last.pre.incomes[idx + 1].source))
       => /\ b.accounts = last.pre.accounts
          /\ b.cards = last.pre.cards
          /\ b.incomes = Unselected(last.pre.incomes, last.to_del)
          /\ b.expenses = last.pre.expenses
    /\ (last.op = "del_exp"
        /\ \A idx \in Range(last.to_del) : Dangling(last.pre, last.pre.expenses[idx + 1].source))
       => /\ b.accounts = last.pre.accounts
          /\ b.cards = last.pre.cards
          /\ b.expenses = Unselected(last.pre.expenses, last.to_del)
          /\ b.incomes = last.pre.incomes

\* an expense whose account was renamed or deleted since was deleted, with an
\* account still in the budget
DanglingExpenseDeleted ==
    /\ last.op = "del_exp"
    /\ last.to_del # <<>>
    /\ \A idx \in Range(last.to_del) : Dangling(last.pre, last.pre.expenses[idx + 1].source)
    /\ last.pre.accounts # <<>>

\* C6: deleting a selection of rows removes exactly the transactions at those
\* positions, in whatever order the rows were picked, and keeps the others in
\* their order.
SelectedRowsDeleted ==
    /\ last.op = "del_inc" => b.incomes = Unselected(last.pre.incomes, last.to_del)
    /\ last.op = "del_exp" => b.expenses = Unselected(last.pre.expenses, last.to_del)

\* rows 0 and 2 of three incomes were picked, in that order, the row between
\* them holding another transaction than they do
RowsZeroAndTwoPicked ==
    /\ last.op = "del_inc"
    /\ Len(last.pre.incomes) = 3
    /\ last.to_del = <<0, 2>>
    /\ last.pre.incomes[2] # last.pre.incomes[1]
    /\ last.pre.incomes[2] # last.pre.incomes[3]
    /\ b.incomes = <<last.pre.incomes[2]>>

RECURSIVE SumAmounts(_, _)
SumAmounts(seq, rows) ==
    IF rows = {} THEN 0
    ELSE LET i == CHOOSE x \in rows : TRUE
         IN  seq[i].amount + SumAmounts(seq, rows \ {i})

\* the sum of the amounts of the transactions recorded with a date of that month
DatedSum(seq, y, m) ==
    SumAmounts(seq, {i \in DOMAIN seq :
                        \E d \in FormDates : d.year = y /\ d.month = m /\ seq[i].date = isoformat(d)})

\* C7: cashflow(year, month) is the sum of the incomes dated in that month of
\* that year minus the sum of the expenses dated in it; other months, and the
\* same month of another year, contribute nothing; an empty budget gives 0.
CashflowIsMonthNet ==
    \A y \in {2024, 2025}, m \in 1..12 :
        /\ cashflow_m(b, y, m) = DatedSum(b.incomes, y, m) - DatedSum(b.expenses, y, m)
        /\ (b.incomes = <<>> /\ b.expenses = <<>>) => cashflow_m(b, y, m) = 0

\* incomes of March 2024 and March 2025 and an expense of April 2024 are listed
MonthsApartListed ==
    /\ \E i \in DOMAIN b.incomes : b.incomes[i].date = isoformat(Date(2024, 3, 10))
    /\ \E i \in DOMAIN b.incomes : b.incomes[i].date = isoformat(Date(2025, 3, 10))
    /\ \E i \in DOMAIN b.expenses : b.expenses[i].date = isoformat(Date(2024, 4, 1))
    /\ cashflow_m(b, 2024, 3) = 100

\* C8: need_pm() is max(target - saved, 0) / max(monthsLeft, 1), with
\* monthsLeft the whole 30-day months to the deadline: no division by zero,
\* never negative.
NeedPerMonth ==
    \A i \in DOMAIN b.goals :
        LET g    == b.goals[i]
            r    == need_pm(g, today)
            left == days(fromisoformat(g.deadline), today)
        IN  /\ ~r.raised
            /\ r.value.den >= 1
            /\ r.value.num >= 0
            /\ r.value.num = (IF g.target > g.saved THEN g.target - g.saved ELSE 0)
            /\ left < 60 => r.value.den = 1
            /\ left >= 30 => (30 * r.value.den <= left /\ left < 30 * r.value.den + 30)

\* a goal saved beyond its target whose deadline has passed, and one two
\* months away with money still to save
GoalsPastAndAhead ==
    /\ \E i \in DOMAIN b.goals :
          /\ b.goals[i].saved > b.goals[i].target
          /\ b.goals[i].target > 0
          /\ days(fromisoformat(b.goals[i].deadline), today) < 0
    /\ \E i \in DOMAIN b.goals :
          /\ b.goals[i].saved < b.goals[i].target
          /\ days(fromisoformat(b.goals[i].deadline), today) >= 60

\* C9: for every card with pay_day in 1..31 and every current date, the
\* reminders are computed without a fatal error and the main body renders.
ReminderNeverFatal ==
    (\A i \in DOMAIN b.cards : b.cards[i].pay_day \in 1..31)
    => (~CardReminders(b, today).raised /\ BodyReached(b, today))

\* two sessions, each loading, changing and saving the Budget of a profile
NextSesiones ==
    \/ \E s \in Sessions, u \in Users, p \in Profiles : RunStart(s, u, p)
    \/ \E s \in Sessions, iam \in Amounts, src \in Names : RunIncome(s, iam, src)

SpecSesiones == Init /\ [][NextSesiones]_vars

\* C10: when two sessions load the same stored Budget of one (user, profile),
\* each apply one mutation and each save, the stored Budget is exactly the one
\* the later save wrote: what was loaded plus the later mutation alone; and a
\* save leaves the stored Budget of every other (user, profile) as it was.
LaterSaveWins ==
    /\ \A s1 \in Sessions, s2 \in Sessions :
          (/\ s1 # s2
           /\ sess[s1].pc = "saved" /\ sess[s2].pc = "saved"
           /\ sess[s1].user = sess[s2].user /\ sess[s1].profile = sess[s2].profile
           /\ sess[s1].base = sess[s2].base
           /\ last.op = "save" /\ last.session = s2)
          => LET base == sess[s2].base
                 file == store[_f(sess[s2].user, sess[s2].profile)]
             IN  /\ file.exists
                 /\ file.data.incomes =
                       Append(base.incomes,
                              Transaction(isoformat(today), last.amount, "Salario", "General",
                                          last.source, FALSE))
                 /\ file.data.expenses = base.expenses
                 /\ file.data.goals = base.goals
                 /\ file.data.debts = base.debts
                 /\ DOMAIN file.data.accounts = DOMAIN base.accounts
                 /\ \A i \in DOMAIN base.accounts :
                       file.data.accounts[i] =
                           [base.accounts[i] EXCEPT !.balance =
                               @ + (IF base.accounts[i].name = last.source THEN last.amount ELSE 0)]
                 /\ DOMAIN file.data.cards = DOMAIN base.cards
                 /\ \A i \in DOMAIN base.cards :
                       file.data.cards[i] =
                           [base.cards[i] EXCEPT !.balance =
                               @ - (IF base.cards[i].name = last.source THEN last.amount ELSE 0)]
    /\ last.op = "save"
       => \A u \in Users, p \in Profiles :
             <<u, p>> # <<sess[last.session].user, sess[last.session].profile>>
             => store[_f(u, p)] = last.pre[_f(u, p)]

\* both sessions loaded the same stored Budget, the first credited the account
\* and saved, then the second credited the card and saved, while the other
\* profile has a stored Budget too
TwoSessionsSaved ==
    /\ sess["s1"].pc = "saved" /\ sess["s2"].pc = "saved"
    /\ sess["s1"].user = sess["s2"].user /\ sess["s1"].profile = sess["s2"].profile
    /\ sess["s1"].base = sess["s2"].base
    /\ sess["s1"].b # sess["s2"].b
    /\ sess["s1"].base.incomes # <<>>
    /\ last.op = "save" /\ last.session = "s2"
    /\ \A k \in Files : store[k].exists

\* a goal saved into and rows deleted, each button pressed again and again
NextRepite ==
    \/ \E gt \in GoalTargets : GoalForm("Viaje", gt, Date(2024, 5, 20))
    \/ \E i \in 1..MaxGoals, add \in Amounts : GoalSumar(i, add)
    \/ Len(b.incomes) < MaxTx /\ \E iam \in Amounts, src \in Names : IncForm(today, iam, src)
    \/ Len(b.expenses) < MaxTx /\ \E gam \in Amounts, src \in Names : ExpForm(today, gam, "Renta", src)
    \/ \E to_del \in Selections(Len(b.incomes)) : IsAscending(to_del) /\ DelIncomes(to_del)
    \/ \E to_del \in Selections(Len(b.expenses)) : IsAscending(to_del) /\ DelExpenses(to_del)

SpecRepite == Init /\ [][NextRepite]_vars

\* C11: a goal's "Sumar" with the same amount, and a deletion of the same
\* rows of the income or the expense list, applied a second time right after the
\* first, leaves the budget as the first application left it.
ReinvocationChangesNothing ==
    [][(\/ /\ last.op = "goal_plus" /\ last'.op = "goal_plus"
           /\ last'.goal = last.goal /\ last'.add = last.add
        \/ /\ last.op = "del_inc" /\ last'.op = "del_inc"
           /\ last'.to_del = last.to_del
        \/ /\ last.op = "del_exp" /\ last'.op = "del_exp"
           /\ last'.to_del = last.to_del)
       => b' = b]_vars

\* the balances typed into an account's "Saldo" before the ledger starts
Saldos == {0, 100}

\* the amounts typed into the expense form
ExpenseAmounts == {40}

\* the account given its opening balance while no transaction is listed, then
\* incomes and expenses of the account and of the card recorded and deleted
NextSaldos ==
    \/ /\ b.incomes = <<>> /\ b.expenses = <<>>
       /\ \E i \in 1..MaxAccounts, balance \in Saldos : AccSaldo(i, balance)
    \/ Len(b.incomes) < MaxTx /\ \E iam \in Amounts, src \in Names : IncForm(today, iam, src)
    \/ Len(b.expenses) < MaxTx /\ \E gam \in ExpenseAmounts, src \in Names : ExpForm(today, gam, "Renta", src)
    \/ \E to_del \in Selections(Len(b.incomes)) : DelIncomes(to_del)
    \/ \E to_del \in Selections(Len(b.expenses)) : DelExpenses(to_del)

SpecSaldos == Init /\ [][NextSaldos]_vars

\* the sum of the amounts of the listed transactions whose source is the name
SourceSum(seq, name) == SumAmounts(seq, {k \in DOMAIN seq : seq[k].source = name})

\* each account's balance less its listed incomes plus its listed expenses
AccountsNet(bb) ==
    [i \in DOMAIN bb.accounts |->
        bb.accounts[i].balance - SourceSum(bb.incomes, bb.accounts[i].name)
                               + SourceSum(bb.expenses, bb.accounts[i].name)]

\* each card's balance less its listed expenses plus its listed incomes
CardsNet(bb) ==
    [i \in DOMAIN bb.cards |->
        bb.cards[i].balance - SourceSum(bb.expenses, bb.cards[i].name)
                            + SourceSum(bb.incomes, bb.cards[i].name)]

\* C12: with distinct names, cash-back 0 and no account or card edited once
\* the ledger has started, every recording and every deletion leaves each
\* account's balance less its listed incomes plus its listed expenses, and each
\* card's balance less its listed expenses plus its listed incomes, as it was;
\* with no transaction listed that is the initial balance, so every balance is
\* the initial balance plus (minus, for a card) the listed incomes of the source
\* minus (plus) its listed expenses.
LedgerConsistent ==
    [][last'.op \in {"inc", "exp", "del_inc", "del_exp"}
       => /\ AccountsNet(b') = AccountsNet(b)
          /\ CardsNet(b') = CardsNet(b)]_vars

\* the account opened at 100; an income and an expense of it and an income of
\* the card are listed after an expense of the card was deleted
LedgerRecordedAndDeleted ==
    /\ last.op = "del_exp"
    /\ \E k \in Range(last.to_del) : last.pre.expenses[k + 1].source = "Banreservas"
    /\ AccountsNet(b) = <<100>>
    /\ CardsNet(b) = <<0>>
    /\ \E k \in DOMAIN b.incomes : b.incomes[k].source = "Cuenta Nomina"
    /\ \E k \in DOMAIN b.incomes : b.incomes[k].source = "Banreservas"
    /\ \E k \in DOMAIN b.expenses : b.expenses[k].source = "Cuenta Nomina"
    /\ b.accounts[1].balance = 160
    /\ b.cards[1].balance = 0 - 100

====
